---- MODULE Spec2Model ----
(***************************************************************************)
(* A model of the sudoku crate (src/lib.rs): the Value and Sudoku types,   *)
(* group iteration and validation, the recursive backtracking solver, and  *)
(* the textual parser and formatter.                                       *)
(*                                                                         *)
(* A Sudoku is its array `cells`, a function from the row-major index      *)
(* 0..80 to the u8 held by a Value (0 is the default, non-final Value).    *)
(* Coordinates are pairs <<x, y>>, a group is the sequence of the nine     *)
(* coordinates its iterator yields.  A text is a sequence of characters,   *)
(* each a one-character string.                                            *)
(***************************************************************************)
EXTENDS Integers, Sequences, FiniteSets, TLC

VARIABLES sudoku,   \* the Sudoku value the caller holds
          stack,    \* solve: the active backtrack calls, outermost first
          ret,      \* solve: the Option<Sudoku> last returned by a call
          ctl,      \* solve: where control is
          sets,     \* the number of set calls made on sudoku
          out,      \* the result of the last library call on the board
          text,     \* the string handed to from_str
          parsed,   \* the Result<Sudoku> of from_str
          shown     \* the string written by Display

vars == <<sudoku, stack, ret, ctl, sets, out, text, parsed, shown>>

(***************************************************************************)
(* Bounds of the model                                                     *)
(***************************************************************************)
\* number of cells a solver input leaves blank among the cells of Pool
MaxBlanks == 4
\* number of `set` calls made on a board
MaxSets == 2

\* the largest u8
U8Max == 255

(***************************************************************************)
(* Value                                                                   *)
(***************************************************************************)
Ok(v) == [ok |-> TRUE, val |-> v, err |-> "none"]
Err(e) == [ok |-> FALSE, val |-> 0, err |-> e]

\* faulty variant: Value::new with the bound off by one
Value_new_accepts_ten(value) == IF value > 10 THEN Err("invalid value") ELSE Ok(value)
Value_new(value) == IF value > 9 THEN Err("invalid value") ELSE Ok(value)

is_final(v) == v > 0

value(v) == v

Value_default == Value_new(0).val

\* a panic is not an Err: it is recorded as the failed result "panic"
Panic == Err("panic: index out of bounds")

(***************************************************************************)
(* Sudoku: construction and indexed access                                 *)
(***************************************************************************)
Sudoku_new == [i \in 0..80 |-> Value_default]

get(cells, x, y) == cells[x * 9 + y]

\* self.cells[i] = value: the board with cell i replaced, or the panic of the
\* index check when i is not below 81
set(cells, x, y, v) ==
    LET i == x * 9 + y
    IN  IF i > 80 THEN Panic ELSE Ok([cells EXCEPT ![i] = v])

(***************************************************************************)
(* Group iterators                                                         *)
(***************************************************************************)
row_iter(row) == [k \in 1..9 |-> <<row, k - 1>>]

col_iter(col) == [k \in 1..9 |-> <<k - 1, col>>]

\* repeat(0).zip(0..3) chained with repeat(1).zip(0..3) and repeat(2).zip(0..3)
repeat_zip(r) == [k \in 1..3 |-> <<r, k - 1>>]

block_chain == repeat_zip(0) \o repeat_zip(1) \o repeat_zip(2)

\* faulty variant: block_iter with the two offsets exchanged
block_iter_row_major(block) ==
    LET offset == <<(block \div 3) * 3, (block % 3) * 3>>
    IN  [k \in 1..9 |-> <<block_chain[k][1] + offset[1], block_chain[k][2] + offset[2]>>]
block_iter(block) ==
    LET offset == <<(block % 3) * 3, (block \div 3) * 3>>
    IN  [k \in 1..9 |-> <<block_chain[k][1] + offset[1], block_chain[k][2] + offset[2]>>]

(***************************************************************************)
(* Validation                                                              *)
(***************************************************************************)
\* the loop of validate_group from the k-th coordinate on; values is the
\* array [bool; 10] as the set of its true indices
RECURSIVE validate_group_from(_, _, _, _)
validate_group_from(cells, iter, k, values) ==
    IF k > Len(iter)
    THEN IF 0 \in values THEN "Incomplete" ELSE "Valid"
    ELSE LET val == get(cells, iter[k][1], iter[k][2])
             index == value(val)
         IN  IF is_final(val) /\ index \in values
             THEN "Invalid"
             ELSE validate_group_from(cells, iter, k + 1, values \cup {index})

\* faulty variant: validate_group without the duplicate test
validate_group_no_duplicates(cells, iter) ==
    IF \E k \in 1..Len(iter) : ~is_final(get(cells, iter[k][1], iter[k][2]))
    THEN "Incomplete" ELSE "Valid"
validate_group(cells, iter) == validate_group_from(cells, iter, 1, {})

\* the 27 groups in the order validate visits them
\* faulty variant: validate visiting the rows again in place of the blocks
validate_order_no_blocks ==
    [n \in 1..27 |-> LET i == (n - 1) \div 3
                     IN  IF (n - 1) % 3 = 1 THEN col_iter(i) ELSE row_iter(i)]
validate_order ==
    [n \in 1..27 |-> LET i == (n - 1) \div 3
                     IN  CASE (n - 1) % 3 = 0 -> row_iter(i)
                           [] (n - 1) % 3 = 1 -> col_iter(i)
                           [] OTHER -> block_iter(i)]

RECURSIVE validate_from(_, _, _)
validate_from(cells, n, incomplete) ==
    IF n > 27
    THEN IF incomplete THEN "Incomplete" ELSE "Valid"
    ELSE LET r == validate_group(cells, validate_order[n])
         IN  IF r = "Invalid" THEN "Invalid"
             ELSE validate_from(cells, n + 1, incomplete \/ r = "Incomplete")

validate(cells) == validate_from(cells, 1, FALSE)

valid(cells) == validate(cells) = "Valid"

(***************************************************************************)
(* Boards of the test suite                                                *)
(***************************************************************************)
\* the grid of test_validate_sudoku, row by row
SolvedRows ==
    << <<5,3,4,6,7,8,9,1,2>>, <<6,7,2,1,9,5,3,4,8>>, <<1,9,8,3,4,2,5,6,7>>,
       <<8,5,9,7,6,1,4,2,3>>, <<4,2,6,8,5,3,7,9,1>>, <<7,1,3,9,2,4,8,5,6>>,
       <<9,6,1,5,3,7,2,8,4>>, <<2,8,7,4,1,9,6,3,5>>, <<3,4,5,2,8,6,1,7,9>> >>

\* the puzzle of test_solve_sudoku, row by row, 0 for a space
ClassicRows ==
    << <<5,3,0,0,7,0,0,0,0>>, <<6,0,0,1,9,5,0,0,0>>, <<0,9,8,0,0,0,0,6,0>>,
       <<8,0,0,0,6,0,0,0,3>>, <<4,0,0,8,0,3,0,0,1>>, <<7,0,0,0,2,0,0,0,6>>,
       <<0,6,0,0,0,0,2,8,0>>, <<0,0,0,4,1,9,0,0,5>>, <<0,0,0,0,8,0,0,7,9>> >>

BoardOf(rows) == [i \in 0..80 |-> rows[(i \div 9) + 1][(i % 9) + 1]]

SolvedGrid == BoardOf(SolvedRows)

ClassicPuzzle == BoardOf(ClassicRows)

\* the puzzle with its first two rows filled in as in its solution SolvedGrid
ClassicStarted == [i \in 0..80 |-> IF i < 18 THEN SolvedGrid[i] ELSE ClassicPuzzle[i]]

\* two identical final digits in row 0, every other cell blank
TwoInRow == [Sudoku_new EXCEPT ![0] = 5, ![7] = 5]

\* cells of SolvedGrid that solver inputs vary: the rectangle 57, 62, 66, 71
\* holds 5 4 / 4 5 in two rows, two columns and two blocks; 80 is the last cell
Pool == {57, 62, 66, 71, 80}

ClueDigits == {4, 5}

Blanks(cells) == {i \in 0..80 : ~is_final(cells[i])}

PoolBoards ==
    {b \in {[i \in 0..80 |-> IF i \in Pool THEN f[i] ELSE SolvedGrid[i]] :
                f \in [Pool -> {0} \cup ClueDigits]} \cup
           {[i \in 0..80 |-> IF i \in S THEN 0 ELSE SolvedGrid[i]] : S \in SUBSET Pool} :
        Cardinality(Blanks(b)) <= MaxBlanks}

(***************************************************************************)
(* solve / backtrack                                                       *)
(*                                                                         *)
(* A frame of `stack` is one active call backtrack(root, level); v is the  *)
(* digit of the for loop whose recursive call is in progress (0 before the *)
(* loop).  ctl is "ready" before solve is called, "call" when the top      *)
(* frame has just been entered, "returned" when the call made by the top   *)
(* frame has returned `ret`, "done" when solve has returned `ret`, and     *)
(* "panic" after an out-of-bounds index.                                   *)
(***************************************************************************)
None == [some |-> FALSE, board |-> Sudoku_new]
Some(b) == [some |-> TRUE, board |-> b]

\* while root.cells[level].is_final() { level += 1 }; 81 is the index whose
\* read panics
RECURSIVE scan(_, _)
\* faulty variant: backtrack without the while loop
scan_stay(cells, level) == level
scan(cells, level) ==
    IF level >= 81 THEN 81
    ELSE IF is_final(cells[level]) THEN scan(cells, level + 1)
    ELSE level

\* let mut candidate = root; candidate.cells[level] = Value::new(v).unwrap()
\* faulty variant: the digits tried from 9 down to 1
candidate_descending(root, level, v) == [root EXCEPT ![level] = Value_new(10 - v).val]
candidate(root, level, v) == [root EXCEPT ![level] = Value_new(v).val]

\* for v in 1..=9: the digit after v, and whether v was the last one
\* faulty variant: a loop that does not advance
next_digit_stuck(v) == v
next_digit(v) == v + 1

\* faulty variant: a loop over 1..9 exclusive
loop_done_at_eight(v) == v >= 8
loop_done(v) == v >= 9

Frame(root, level, v) == [root |-> root, level |-> level, v |-> v]

Top == stack[Len(stack)]

Pop == SubSeq(stack, 1, Len(stack) - 1)

Return(r) ==
    /\ ret' = r
    /\ stack' = Pop
    /\ ctl' = IF Len(stack) = 1 THEN "done" ELSE "returned"

\* solve(sudoku) calls backtrack(sudoku, 0)
Solve ==
    /\ ctl = "ready"
    /\ stack' = <<Frame(sudoku, 0, 0)>>
    /\ ctl' = "call"
    /\ UNCHANGED <<sudoku, ret, sets, out, text, parsed, shown>>

BacktrackValid ==
    /\ ctl = "call"
    /\ validate(Top.root) = "Valid"
    /\ Return(Some(Top.root))
    /\ UNCHANGED <<sudoku, sets, out, text, parsed, shown>>

BacktrackInvalid ==
    /\ ctl = "call"
    /\ validate(Top.root) = "Invalid"
    /\ Return(None)
    /\ UNCHANGED <<sudoku, sets, out, text, parsed, shown>>

\* Incomplete: advance level to the decision cell and make the call for v = 1
BacktrackIncomplete ==
    /\ ctl = "call"
    /\ validate(Top.root) = "Incomplete"
    /\ LET level == scan(Top.root, Top.level)
       IN  IF level >= 81
           THEN /\ ctl' = "panic"
                /\ UNCHANGED stack
           ELSE /\ stack' = Append([stack EXCEPT ![Len(stack)] = Frame(Top.root, level, 1)],
                                   Frame(candidate(Top.root, level, 1), level + 1, 0))
                /\ ctl' = "call"
    /\ UNCHANGED <<sudoku, ret, sets, out, text, parsed, shown>>

\* if let Some(solution) = backtrack(..) { return Some(solution) }
ReturnSome ==
    /\ ctl = "returned"
    /\ ret.some
    /\ Return(ret)
    /\ UNCHANGED <<sudoku, sets, out, text, parsed, shown>>

\* the call for v returned None and the loop goes on to v + 1
ReturnNoneNext ==
    /\ ctl = "returned"
    /\ ~ret.some
    /\ ~loop_done(Top.v)
    /\ stack' = Append([stack EXCEPT ![Len(stack)].v = next_digit(Top.v)],
                       Frame(candidate(Top.root, Top.level, next_digit(Top.v)), Top.level + 1, 0))
    /\ ctl' = "call"
    /\ UNCHANGED <<sudoku, ret, sets, out, text, parsed, shown>>

\* the loop is exhausted: None
ReturnNoneExhausted ==
    /\ ctl = "returned"
    /\ ~ret.some
    /\ loop_done(Top.v)
    /\ Return(None)
    /\ UNCHANGED <<sudoku, sets, out, text, parsed, shown>>

NextSolve ==
    \/ Solve
    \/ BacktrackValid
    \/ BacktrackInvalid
    \/ BacktrackIncomplete
    \/ ReturnSome
    \/ ReturnNoneNext
    \/ ReturnNoneExhausted

NoCall == [op |-> "none", arg |-> 0, res |-> 0]

InitBoardCalls ==
    /\ sets = 0
    /\ out = NoCall

InitText ==
    /\ text = <<>>
    /\ parsed = NoCall
    /\ shown = <<>>

InitRest == InitBoardCalls /\ InitText

InitSolver ==
    /\ stack = <<>>
    /\ ret = None
    /\ ctl = "ready"

InitSolve ==
    /\ sudoku \in PoolBoards \cup {TwoInRow}
    /\ InitSolver
    /\ InitRest

SpecSolve == InitSolve /\ [][NextSolve]_vars

InitDeep ==
    /\ sudoku \in PoolBoards \cup {TwoInRow, Sudoku_new, ClassicStarted}
    /\ InitSolver
    /\ InitRest

SpecDeep == InitDeep /\ [][NextSolve]_vars

\* solve runs to completion once called: no step of it waits on anything
InitFair ==
    /\ sudoku \in {TwoInRow, Sudoku_new, ClassicStarted}
    /\ InitSolver
    /\ InitRest

SpecFair == InitFair /\ [][NextSolve]_vars /\ WF_vars(NextSolve)

(***************************************************************************)
(* Calls that take no board: Value::new, Value::default, block_iter        *)
(***************************************************************************)
Call(op, arg, res) == [op |-> op, arg |-> arg, res |-> res]

\* Value::new(v), v any u8
ValueNew(v) ==
    /\ out' = Call("Value::new", v, Value_new(v))
    /\ UNCHANGED <<sudoku, sets, stack, ret, ctl, text, parsed, shown>>

\* Value::default()
ValueDefault ==
    /\ out' = Call("Value::default", 0, Value_default)
    /\ UNCHANGED <<sudoku, sets, stack, ret, ctl, text, parsed, shown>>

\* block_iter(i).collect()
BlockIter(i) ==
    /\ out' = Call("block_iter", i, block_iter(i))
    /\ UNCHANGED <<sudoku, sets, stack, ret, ctl, text, parsed, shown>>

NextValue ==
    \/ \E v \in 0..U8Max : ValueNew(v)
    \/ ValueDefault
    \/ \E i \in 0..8 : BlockIter(i)

InitValue ==
    /\ sudoku = Sudoku_new
    /\ InitSolver
    /\ InitRest

SpecValue == InitValue /\ [][NextValue]_vars

(***************************************************************************)
(* Calls on a board: set, validate, valid                                  *)
(***************************************************************************)
\* the coordinates set calls use: pairs of them share a row only, a column
\* only, a block only, or nothing; <<9, 0>> is index 81, outside the array
SetCoords == {<<0, 0>>, <<0, 5>>, <<1, 1>>, <<4, 0>>, <<8, 8>>, <<9, 0>>}

\* the raw values set calls use; 10 is not a Value
SetRaw == {0, 1, 2, 9, 10}

\* sudoku.set(x, y, Value::new(v).unwrap()): unwrap panics on an Err, set
\* panics on an index outside the array; a panic ends the run (ctl = "panic")
Set(x, y, v) ==
    /\ ctl # "panic"
    /\ sets < MaxSets
    /\ LET val == Value_new(v)
           r == set(sudoku, x, y, val.val)
       IN  IF val.ok /\ r.ok
           THEN /\ sudoku' = r.val
                /\ sets' = sets + 1
                /\ out' = Call("set", <<x, y, v>>, 0)
                /\ UNCHANGED ctl
           ELSE /\ ctl' = "panic"
                /\ UNCHANGED <<sudoku, sets, out>>
    /\ UNCHANGED <<stack, ret, text, parsed, shown>>

\* sudoku.validate()
Validate ==
    /\ ctl # "panic"
    /\ out' = Call("validate", 0, validate(sudoku))
    /\ UNCHANGED <<sudoku, sets, stack, ret, ctl, text, parsed, shown>>

\* sudoku.valid()
Valid ==
    /\ ctl # "panic"
    /\ out' = Call("valid", 0, valid(sudoku))
    /\ UNCHANGED <<sudoku, sets, stack, ret, ctl, text, parsed, shown>>

NextBoard ==
    \/ \E c \in SetCoords, v \in SetRaw : Set(c[1], c[2], v)
    \/ Validate
    \/ Valid

InitBoard ==
    /\ sudoku \in {Sudoku_new, SolvedGrid}
    /\ InitSolver
    /\ InitRest

SpecBoard == InitBoard /\ [][NextBoard]_vars

(***************************************************************************)
(* Text: FromStr and Display for Value and Sudoku                          *)
(***************************************************************************)
DigitChars == <<"0", "1", "2", "3", "4", "5", "6", "7", "8", "9">>

IsDigitChar(c) == \E d \in 1..10 : DigitChars[d] = c

DigitOf(c) == (CHOOSE d \in 1..10 : DigitChars[d] = c) - 1

\* str::parse::<u8>: an optional '+', then decimal digits, at most 255
RECURSIVE parse_digits(_, _, _)
parse_digits(string, k, acc) ==
    IF k > Len(string) THEN Ok(acc)
    ELSE IF ~IsDigitChar(string[k]) THEN Err("invalid digit found in string")
    ELSE IF acc * 10 + DigitOf(string[k]) > U8Max
         THEN Err("number too large to fit in target type")
    ELSE parse_digits(string, k + 1, acc * 10 + DigitOf(string[k]))

parse_u8(string) ==
    IF Len(string) = 0 THEN Err("cannot parse integer from empty string")
    ELSE IF Len(string) = 1 /\ string[1] \in {"+", "-"}
         THEN Err("invalid digit found in string")
    ELSE IF string[1] = "+" THEN parse_digits(string, 2, 0)
    ELSE parse_digits(string, 1, 0)

\* faulty variant: Value::from_str without the test for 0
Value_from_str_accepts_zero(string) ==
    IF string = <<" ">> THEN Ok(Value_default)
    ELSE LET val == parse_u8(string)
         IN  IF ~val.ok THEN val
             ELSE Value_new(val.val)
Value_from_str(string) ==
    IF string = <<" ">> THEN Ok(Value_default)
    ELSE LET val == parse_u8(string)
         IN  IF ~val.ok THEN val
             ELSE IF val.val = 0 THEN Err("value out of range")
             ELSE Value_new(val.val)

\* u8 to decimal digits
RECURSIVE u8_to_string(_)
u8_to_string(n) ==
    IF n < 10 THEN <<DigitChars[n + 1]>>
    ELSE Append(u8_to_string(n \div 10), DigitChars[(n % 10) + 1])

Value_fmt(v) == IF is_final(v) THEN u8_to_string(value(v)) ELSE <<" ">>

\* string.split('\n'): the pieces between newlines, k the next character,
\* cur the piece being read
RECURSIVE split_from(_, _, _)
split_from(string, k, cur) ==
    IF k > Len(string) THEN <<cur>>
    ELSE IF string[k] = "\n" THEN <<cur>> \o split_from(string, k + 1, <<>>)
    ELSE split_from(string, k + 1, Append(cur, string[k]))

split(string) == split_from(string, 1, <<>>)

\* the inner loop of from_str over row x from its character y (0-based) on;
\* a result that is not ok ends the parse
RECURSIVE from_str_row(_, _, _, _)
from_str_row(cells, row, x, y) ==
    IF y >= Len(row) THEN Ok(cells)
    ELSE IF row[y + 1] = " " THEN from_str_row(cells, row, x, y + 1)
    ELSE LET cell == Value_from_str(<<row[y + 1]>>)
         IN  IF ~cell.ok THEN cell
             ELSE LET r == set(cells, x, y, cell.val)
                  IN  IF ~r.ok THEN r
                      ELSE from_str_row(r.val, row, x, y + 1)

\* the outer loop of from_str from row x (0-based) on
RECURSIVE from_str_rows(_, _, _)
from_str_rows(cells, rows, x) ==
    IF x >= Len(rows) THEN Ok(cells)
    ELSE LET r == from_str_row(cells, rows[x + 1], x, 0)
         IN  IF ~r.ok THEN r
             ELSE from_str_rows(r.val, rows, x + 1)

Sudoku_from_str(string) == from_str_rows(Sudoku_new, split(string), 0)

\* Display: the nine cells of row x from column y on
RECURSIVE fmt_row(_, _, _)
\* faulty variant: Display reading get(y, x)
fmt_row_transposed(cells, x, y) ==
    IF y > 8 THEN <<>>
    ELSE Value_fmt(get(cells, y, x)) \o fmt_row(cells, x, y + 1)
fmt_row(cells, x, y) ==
    IF y > 8 THEN <<>>
    ELSE Value_fmt(get(cells, x, y)) \o fmt_row(cells, x, y + 1)

RECURSIVE fmt_rows(_, _)
fmt_rows(cells, x) ==
    IF x > 8 THEN <<>>
    ELSE fmt_row(cells, x, 0) \o <<"\n">> \o fmt_rows(cells, x + 1)

Sudoku_fmt(cells) == fmt_rows(cells, 0)

(***************************************************************************)
(* Texts and boards handed to the parser and the formatter                 *)
(***************************************************************************)
CharOf(d) == IF d = 0 THEN " " ELSE DigitChars[d + 1]

\* the string literal of a test: nine rows joined by newlines
TextOf(rows) ==
    [k \in 1..89 |-> IF k % 10 = 0 THEN "\n"
                     ELSE CharOf(rows[((k - 1) \div 10) + 1][((k - 1) % 10) + 1])]

SolvedText == TextOf(SolvedRows)

ClassicText == TextOf(ClassicRows)

\* characters put in place of one character of a text
Alphabet == {" ", "0", "1", "5", "9", "a", "x", "+", "-", ".", ":", "/", "\n"}

Replace(t, k, c) == [t EXCEPT ![k] = c]

TextInputs ==
    {Replace(t, k, c) : t \in {SolvedText, ClassicText}, k \in 1..89, c \in Alphabet}
        \cup {SolvedText \o <<"\n">>, SolvedText \o <<"\n", "7">>}

\* SolvedGrid with one cell replaced
BoardInputs ==
    {[SolvedGrid EXCEPT ![i] = v] : i \in 0..80, v \in {0, 1, 5, 9}}

\* let parsed = text.parse::<Sudoku>()
Parse ==
    /\ text # <<>>
    /\ parsed.op = "none"
    /\ parsed' = Call("from_str", 0, Sudoku_from_str(text))
    /\ UNCHANGED <<sudoku, sets, out, stack, ret, ctl, text, shown>>

\* let sudoku = parsed.unwrap()
Unwrap ==
    /\ parsed.op = "from_str"
    /\ parsed.res.ok
    /\ shown = <<>>
    /\ sudoku # parsed.res.val
    /\ sudoku' = parsed.res.val
    /\ UNCHANGED <<sets, out, stack, ret, ctl, text, parsed, shown>>

\* let shown = format!("{}", sudoku)
Display ==
    /\ shown = <<>>
    /\ shown' = Sudoku_fmt(sudoku)
    /\ UNCHANGED <<sudoku, sets, out, stack, ret, ctl, text, parsed>>

\* let parsed = shown.parse::<Sudoku>()
Reparse ==
    /\ shown # <<>>
    /\ text # shown
    /\ text' = shown
    /\ parsed' = Call("from_str", 0, Sudoku_from_str(shown))
    /\ UNCHANGED <<sudoku, sets, out, stack, ret, ctl, shown>>

NextText ==
    \/ Parse
    \/ Unwrap
    \/ Display
    \/ Reparse

InitTextSpec ==
    /\ \/ text \in TextInputs /\ sudoku = Sudoku_new
       \/ text = <<>> /\ sudoku \in BoardInputs
    /\ parsed = NoCall
    /\ shown = <<>>
    /\ InitBoardCalls
    /\ InitSolver

SpecText == InitTextSpec /\ [][NextText]_vars

(***************************************************************************)
(* What a solution is, stated on the grid and not through the iterators    *)
(***************************************************************************)
RowCells(r) == {i \in 0..80 : i \div 9 = r}

ColCells(c) == {i \in 0..80 : i % 9 = c}

BoxCells(br, bc) == {i \in 0..80 : (i \div 9) \div 3 = br /\ (i % 9) \div 3 = bc}

Groups == {RowCells(r) : r \in 0..8} \cup {ColCells(c) : c \in 0..8}
              \cup {BoxCells(br, bc) : br \in 0..2, bc \in 0..2}

\* every group holds each digit 1..9 exactly once
IsSolution(s) ==
    \A g \in Groups : \A d \in 1..9 : Cardinality({i \in g : s[i] = d}) = 1

AgreesOnFinals(s, p) == \A i \in 0..80 : p[i] > 0 => s[i] = p[i]

Fill(p, f) == [i \in 0..80 |-> IF i \in DOMAIN f THEN f[i] ELSE p[i]]

\* the valid completions of p, by enumeration of the digits of its blank cells
Completions(p) ==
    {s \in {Fill(p, f) : f \in [Blanks(p) -> 1..9]} : IsSolution(s)}

\* inputs whose completions the enumeration covers
Enumerable(p) == Cardinality(Blanks(p)) <= MaxBlanks

\* a precedes b in the row-major reading of the 81 digits, or is b
LexLeq(a, b) ==
    \/ a = b
    \/ \E i \in 0..80 : a[i] < b[i] /\ \A j \in 0..(i - 1) : a[j] = b[j]

\* C1: when solve(p) returns Some(s), s.valid() is true, every row, column
\* and block of s holds each digit 1..9 exactly once, and s holds the digit
\* of p in every cell that is final in p.
C1_SolutionIsValidCompletion ==
    (ctl = "done" /\ ret.some) =>
        /\ valid(ret.board)
        /\ IsSolution(ret.board)
        /\ AgreesOnFinals(ret.board, sudoku)

\* the puzzle of the test suite, started, has been solved
C1_Witness ==
    /\ ctl = "done"
    /\ ret.some
    /\ sudoku = ClassicStarted
    /\ ret.board = SolvedGrid

\* C2: solve(p) returns None exactly when p has no valid completion; a board
\* with two identical final digits in one row and all other cells blank
\* yields None.
C2_NoneIffNoCompletion ==
    ctl = "done" =>
        /\ Enumerable(sudoku) => (~ret.some <=> Completions(sudoku) = {})
        /\ sudoku = TwoInRow => ~ret.some

\* the search is exhausted on a board that has no duplicate and no completion
C2_Witness ==
    /\ ctl = "done"
    /\ ~ret.some
    /\ validate(sudoku) = "Incomplete"
    /\ Enumerable(sudoku)
    /\ Completions(sudoku) = {}

\* C5: for an input with a valid completion, solve returns the completion
\* whose 81 digits in row-major order are lexicographically smallest.
C5_LexicographicallyFirst ==
    (ctl = "done" /\ Enumerable(sudoku) /\ Completions(sudoku) # {}) =>
        /\ ret.some
        /\ ret.board \in Completions(sudoku)
        /\ \A s \in Completions(sudoku) : LexLeq(ret.board, s)

\* an input with more than one completion has been solved
C5_Witness ==
    /\ ctl = "done"
    /\ ret.some
    /\ Enumerable(sudoku)
    /\ Cardinality(Completions(sudoku)) >= 2

\* the frames whose for loop is running: each has assigned its decision cell
Assigning == {k \in 1..Len(stack) : stack[k].v > 0}

RecursionDepth == Cardinality(Assigning)

\* C3: solve terminates; a call returns on Valid or Invalid or tries the
\* digits 1..9 at one decision cell; the recursion is at most 81 levels deep,
\* each level having assigned one cell that was not final in the input.
C3_Terminates ==
    /\ [](/\ RecursionDepth <= 81
          /\ Len(stack) <= RecursionDepth + 1
          /\ \A k \in 1..Len(stack) : stack[k].v \in 0..9
          /\ \A k \in Assigning : ~is_final(sudoku[stack[k].level])
          /\ \A k, l \in Assigning : k # l => stack[k].level # stack[l].level)
    /\ <>(ctl = "done")

\* 81 levels are active: every cell of the empty board is assigned
C3_Witness == RecursionDepth = 81 /\ Len(stack) = 82

\* C10: in every call backtrack(root, level), level <= 81 and every cell of
\* root below level is final; the scan stops at an index in 0..80, never
\* indexes cells[81], and the decision cell is the first non-final cell.
C10_CursorInvariant ==
    /\ ctl # "panic"
    /\ \A k \in 1..Len(stack) :
          /\ stack[k].level <= 81
          /\ \A i \in 0..(stack[k].level - 1) : is_final(stack[k].root[i])
          /\ stack[k].v > 0 =>
                /\ stack[k].level \in 0..80
                /\ stack[k].level \in Blanks(stack[k].root)
                /\ \A i \in Blanks(stack[k].root) : stack[k].level <= i

\* a call was entered on a final cell and its scan moved the cursor forward,
\* and the innermost call was entered with level 81
C10_Witness ==
    \E k \in 2..Len(stack) :
        /\ stack[k].v > 0
        /\ stack[k].level > stack[k - 1].level + 1
        /\ stack[Len(stack)].level = 81

\* two final cells of one group hold the same digit
HasDuplicate(cells) ==
    \E g \in Groups : \E i, j \in g : i # j /\ cells[i] > 0 /\ cells[i] = cells[j]

Classification(cells) ==
    IF HasDuplicate(cells) THEN "Invalid"
    ELSE IF \E i \in 0..80 : cells[i] = 0 THEN "Incomplete"
    ELSE "Valid"

\* C4: validate() returns Invalid iff some row, column or block holds two
\* final cells with the same digit; otherwise Incomplete iff some cell is not
\* final; otherwise Valid.  valid() is true exactly in the last case.
C4_ValidateClassifies ==
    /\ out.op = "validate" => out.res = Classification(sudoku)
    /\ out.op = "valid" => (out.res <=> (~HasDuplicate(sudoku) /\ Blanks(sudoku) = {}))

\* Invalid was returned for a duplicate that only a block holds
C4_Witness ==
    /\ out.op = "validate"
    /\ out.res = "Invalid"
    /\ \A r \in 0..8 : \A i, j \in RowCells(r) \cup ColCells(r) :
          (i # j /\ sudoku[i] > 0 /\ sudoku[i] = sudoku[j])
              => ~(i \div 9 = j \div 9 \/ i % 9 = j % 9)

\* the coordinates of the 3x3 square with top-left corner (r0, c0), row-major
Square(r0, c0) == [k \in 1..9 |-> <<r0 + ((k - 1) \div 3), c0 + ((k - 1) % 3)>>]

\* C6 as stated: block i is the square at row (i / 3) * 3, col (i % 3) * 3.
C6_BlockRowMajorIndex ==
    out.op = "block_iter" => out.res = Square((out.arg \div 3) * 3, (out.arg % 3) * 3)

\* C6 amended: block i is the square whose top-left corner is at
\* row (i % 3) * 3, col (i / 3) * 3, in row-major order within the block;
\* its cells, at index row * 9 + col, are those of one 3x3 box of the grid.
C6_BlockColumnMajorIndex ==
    out.op = "block_iter" =>
        /\ out.res = Square((out.arg % 3) * 3, (out.arg \div 3) * 3)
        /\ {out.res[k][1] * 9 + out.res[k][2] : k \in 1..9}
               = BoxCells(out.arg % 3, out.arg \div 3)
        /\ out.arg = 0 => out.res = << <<0,0>>, <<0,1>>, <<0,2>>, <<1,0>>, <<1,1>>,
                                        <<1,2>>, <<2,0>>, <<2,1>>, <<2,2>> >>

\* block 1 was enumerated: it starts at row 3, column 0
C6_Witness ==
    /\ out.op = "block_iter"
    /\ out.arg = 1
    /\ out.res[1] = <<3, 0>>

\* C7 as stated: a Value is always in 1..9 and Value::new(v) succeeds exactly
\* when 1 <= v <= 9.
C7_ValueOneToNine ==
    /\ out.op = "Value::new" =>
          /\ out.res.ok <=> out.arg \in 1..9
          /\ out.res.ok => out.res.val \in 1..9
    /\ out.op = "Value::default" => out.res \in 1..9

\* C7 amended: a Value is always in 0..9, 0 being the default, non-final
\* value; Value::new(v) succeeds exactly when v <= 9, and fails for v >= 10.
C7_ValueZeroToNine ==
    /\ out.op = "Value::new" =>
          /\ out.res.ok <=> out.arg \in 0..9
          /\ out.res.ok => out.res.val = out.arg /\ (is_final(out.res.val) <=> out.arg # 0)
    /\ out.op = "Value::default" => out.res = 0 /\ ~is_final(out.res)

\* Value::new(0) succeeded
C7_Witness ==
    /\ out.op = "Value::new"
    /\ out.arg = 0
    /\ out.res.ok

\* the rows of a text, read off its positions: row r is characters
\* 10 r + 1 .. 10 r + 9
RowAt(t, r) == SubSeq(t, 10 * r + 1, 10 * r + 9)

\* nine lines of nine characters separated by newlines, with or without a
\* final newline
IsGridText(t) ==
    /\ Len(t) \in {89, 90}
    /\ \A k \in 1..Len(t) : (t[k] = "\n") <=> (k % 10 = 0)

CellChars == {" ", "1", "2", "3", "4", "5", "6", "7", "8", "9"}

HasBadCell(t) == \E k \in 1..Len(t) : k % 10 # 0 /\ t[k] \notin CellChars

IsDigitGrid(t) ==
    /\ IsGridText(t)
    /\ \A k \in 1..Len(t) : k % 10 # 0 => t[k] \in CellChars \ {" "}

\* C8: parsing a grid text that has, at a cell position, a character outside
\* ' ', '1'..'9' returns an error and does not panic; no board is returned.
C8_BadCharacterIsError ==
    (parsed.op = "from_str" /\ IsGridText(text) /\ HasBadCell(text)) =>
        /\ ~parsed.res.ok
        /\ parsed.res # Panic
        /\ parsed.res.err \in {"value out of range", "invalid digit found in string"}

\* a grid with the digit '0' in a cell was rejected as out of range
C8_Witness ==
    /\ parsed.op = "from_str"
    /\ IsGridText(text)
    /\ \E k \in 1..Len(text) : text[k] = "0"
    /\ parsed.res = Err("value out of range")

\* C9: the text Display writes for a board whose cells are all final is nine
\* newline-terminated rows of nine characters and parses to that board; the
\* board parsed from a nine-line text of digits formats to the rows of the
\* text.
C9_RoundTrip ==
    /\ (shown # <<>> /\ Blanks(sudoku) = {}) =>
          /\ Len(shown) = 90
          /\ IsDigitGrid(shown)
          /\ \A i \in 0..80 : shown[10 * (i \div 9) + (i % 9) + 1] = CharOf(sudoku[i])
    /\ (shown # <<>> /\ Blanks(sudoku) = {} /\ text = shown /\ parsed.op = "from_str") =>
          /\ parsed.res.ok
          /\ parsed.res.val = sudoku
    /\ (parsed.op = "from_str" /\ IsDigitGrid(text)) =>
          /\ parsed.res.ok
          /\ (shown # <<>> /\ sudoku = parsed.res.val) =>
                \A r \in 0..8 : RowAt(shown, r) = RowAt(text, r)

\* a board with all cells final, other than the grid of the test, was
\* formatted and parsed back
C9_Witness ==
    /\ shown # <<>>
    /\ text = shown
    /\ parsed.op = "from_str"
    /\ parsed.res.ok
    /\ parsed.res.val = sudoku
    /\ Blanks(sudoku) = {}
    /\ sudoku # SolvedGrid

====
